---- MODULE Spec2Model ----
(***************************************************************************)
(* Server actions of the career-coach application: cover letters           *)
(* (generateCoverLetter), interview quizzes (generateQuiz, saveQuizResult)  *)
(* and industry insights (generateAIInsights, getIndustryInsights).        *)
(*                                                                         *)
(* Text is a sequence of symbols.  Punctuation, digits and white space are *)
(* single characters; a word ("json", "RESOURCE_EXHAUSTED", "questions")   *)
(* is one symbol.  JavaScript values are records tagged by the field t.    *)
(***************************************************************************)
EXTENDS Integers, Sequences, FiniteSets, TLC

\* ------------------------------------------------------------------ text

\* The backquote character (the lexer takes no backquote in a string literal).
BT == "backquote"
Q  == "\""
NL == "\n"
SP == " "

Digits == {"0", "1", "2", "3", "4", "5", "6", "7", "8", "9"}

DigitVal(c) ==
    CASE c = "0" -> 0 [] c = "1" -> 1 [] c = "2" -> 2 [] c = "3" -> 3
      [] c = "4" -> 4 [] c = "5" -> 5 [] c = "6" -> 6 [] c = "7" -> 7
      [] c = "8" -> 8 [] c = "9" -> 9

\* The white space String.prototype.trim removes and JSON.parse skips
\* (of the symbols of the model).
WhiteSpace == {SP, NL}

Range(s) == {s[i] : i \in 1..Len(s)}

\* s from position i on (1-based); empty when i is past the end.
Drop(s, i) == IF i > Len(s) THEN <<>> ELSE SubSeq(s, i, Len(s))

\* String.prototype.startsWith
StartsWith(s, p) == Len(s) >= Len(p) /\ SubSeq(s, 1, Len(p)) = p

\* String.prototype.includes for a one-symbol needle
Includes(s, w) == w \in Range(s)

RECURSIVE TrimStart(_)
TrimStart(s) ==
    IF s # <<>> /\ Head(s) \in WhiteSpace THEN TrimStart(Tail(s)) ELSE s

RECURSIVE TrimEnd(_)
TrimEnd(s) ==
    IF s # <<>> /\ s[Len(s)] \in WhiteSpace
    THEN TrimEnd(SubSeq(s, 1, Len(s) - 1)) ELSE s

\* String.prototype.trim
Trim(s) == TrimEnd(TrimStart(s))

RECURSIVE Join(_)
\* Array.prototype.join("") of a list of texts
Join(list) == IF list = <<>> THEN <<>> ELSE Head(list) \o Join(Tail(list))

\* ------------------------------------------------------------ JS values

Undefined == [t |-> "undefined"]
JStr(s)   == [t |-> "str", v |-> s]
JNum(d)   == [t |-> "num", v |-> d]
JObj(m)   == [t |-> "obj", v |-> m]
JArr(a)   == [t |-> "arr", v |-> a]

\* JavaScript truthiness of a value of the model
Truthy(x) ==
    CASE x.t = "undefined" -> FALSE
      [] x.t = "str" -> x.v # <<>>
      [] x.t = "num" -> \E i \in 1..Len(x.v) : x.v[i] # "0"
      [] OTHER -> TRUE

RECURSIVE Lookup(_, _)
\* The value of key k in a list of <<key, value>> members; the last wins,
\* as in JSON.parse.
Lookup(m, k) ==
    IF m = <<>> THEN Undefined
    ELSE IF m[Len(m)][1] = k THEN m[Len(m)][2]
    ELSE Lookup(SubSeq(m, 1, Len(m) - 1), k)

\* x?.k : undefined on undefined and on a value without that property
Get(x, k) == IF x.t = "obj" THEN Lookup(x.v, k) ELSE Undefined

\* ------------------------------------------------------------ JSON.parse

ParseFail == [ok |-> FALSE]
Parsed(val, rest) == [ok |-> TRUE, val |-> val, rest |-> rest]

RECURSIVE DigitRun(_)
\* The longest prefix of s made of digits
DigitRun(s) ==
    IF s # <<>> /\ Head(s) \in Digits THEN <<Head(s)>> \o DigitRun(Tail(s))
    ELSE <<>>

RECURSIVE StringBody(_)
\* The symbols of s up to the first quote
StringBody(s) ==
    IF s = <<>> \/ Head(s) = Q THEN <<>> ELSE <<Head(s)>> \o StringBody(Tail(s))

\* A JSON string at the head of s: quote, symbols without a raw line break,
\* quote.
ParseString(s) ==
    IF s = <<>> \/ Head(s) # Q THEN ParseFail
    ELSE LET body == StringBody(Tail(s))
             rest == Drop(s, Len(body) + 2)
         IN IF rest = <<>> \/ NL \in Range(body) THEN ParseFail
            ELSE Parsed(JStr(body), Tail(rest))

RECURSIVE ParseValue(_)
RECURSIVE ParseMembers(_, _)
RECURSIVE ParseElements(_, _)

\* The members of an object after "{" or ",": key, colon, value.
ParseMembers(s, acc) ==
    LET k == ParseString(TrimStart(s)) IN
    IF ~k.ok THEN ParseFail
    ELSE LET c == TrimStart(k.rest) IN
         IF c = <<>> \/ Head(c) # ":" THEN ParseFail
         ELSE LET v == ParseValue(Tail(c)) IN
              IF ~v.ok THEN ParseFail
              ELSE LET r   == TrimStart(v.rest)
                       all == Append(acc, <<k.val.v, v.val>>)
                   IN IF r = <<>> THEN ParseFail
                      ELSE IF Head(r) = "}" THEN Parsed(JObj(all), Tail(r))
                      ELSE IF Head(r) = "," THEN ParseMembers(Tail(r), all)
                      ELSE ParseFail

\* The elements of an array after "[" or ",".
ParseElements(s, acc) ==
    LET v == ParseValue(s) IN
    IF ~v.ok THEN ParseFail
    ELSE LET r   == TrimStart(v.rest)
             all == Append(acc, v.val)
         IN IF r = <<>> THEN ParseFail
            ELSE IF Head(r) = "]" THEN Parsed(JArr(all), Tail(r))
            ELSE IF Head(r) = "," THEN ParseElements(Tail(r), all)
            ELSE ParseFail

\* One JSON value at the head of s, leading white space skipped.
ParseValue(s) ==
    LET u == TrimStart(s) IN
    IF u = <<>> THEN ParseFail
    ELSE IF Head(u) \in Digits
         THEN LET d == DigitRun(u) IN
              IF Len(d) > 1 /\ Head(d) = "0" THEN ParseFail
              ELSE Parsed(JNum(d), Drop(u, Len(d) + 1))
    ELSE IF Head(u) = Q THEN ParseString(u)
    ELSE IF Head(u) = "{"
         THEN LET r == TrimStart(Tail(u)) IN
              IF r # <<>> /\ Head(r) = "}" THEN Parsed(JObj(<<>>), Tail(r))
              ELSE ParseMembers(Tail(u), <<>>)
    ELSE IF Head(u) = "["
         THEN LET r == TrimStart(Tail(u)) IN
              IF r # <<>> /\ Head(r) = "]" THEN Parsed(JArr(<<>>), Tail(r))
              ELSE ParseElements(Tail(u), <<>>)
    ELSE ParseFail

\* JSON.parse(s): the value, or a SyntaxError (ok = FALSE).
JsonParse(s) ==
    LET r == ParseValue(s) IN
    IF r.ok /\ TrimStart(r.rest) = <<>> THEN [ok |-> TRUE, val |-> r.val]
    ELSE ParseFail

\* JSON.stringify of a value whose strings hold no quote and no line break
RECURSIVE Stringify(_)
RECURSIVE StringifyMembers(_)
RECURSIVE StringifyElements(_)
StringifyMembers(m) ==
    IF m = <<>> THEN <<>>
    ELSE (IF Len(m) > 1
          THEN StringifyMembers(SubSeq(m, 1, Len(m) - 1)) \o <<",">>
          ELSE <<>>)
         \o <<Q>> \o m[Len(m)][1] \o <<Q, ":">> \o Stringify(m[Len(m)][2])
StringifyElements(a) ==
    IF a = <<>> THEN <<>>
    ELSE (IF Len(a) > 1
          THEN StringifyElements(SubSeq(a, 1, Len(a) - 1)) \o <<",">>
          ELSE <<>>)
         \o Stringify(a[Len(a)])
Stringify(x) ==
    CASE x.t = "str" -> <<Q>> \o x.v \o <<Q>>
      [] x.t = "num" -> x.v
      [] x.t = "obj" -> <<"{">> \o StringifyMembers(x.v) \o <<"}">>
      [] x.t = "arr" -> <<"[">> \o StringifyElements(x.v) \o <<"]">>

\* ------------------------------------------------- response extraction

kText       == <<"text">>
kResponse   == <<"response">>
kCandidates == <<"candidates">>
kContent    == <<"content">>
kParts      == <<"parts">>

\* a?.[0]
First(a) == IF a.t = "arr" /\ a.v # <<>> THEN a.v[1] ELSE Undefined

\* result?.response?.candidates?.[0]?.content?.parts
PartsOf(result) ==
    Get(Get(First(Get(Get(result, kResponse), kCandidates)), kContent), kParts)

\* String(x) as Array.prototype.join applies it to an element
ToText(x) == IF x.t = "str" \/ x.t = "num" THEN x.v ELSE <<>>

\* parts.map((p) => p.text || "")
PartTexts(parts) ==
    [i \in 1..Len(parts) |->
        LET x == Get(parts[i], kText) IN IF Truthy(x) THEN ToText(x) ELSE <<>>]

Extracted(text) == [ok |-> TRUE, text |-> text]
ExtractError(msg) == [ok |-> FALSE, error |-> msg]

\* An extraction that looked at response.text before text
ExtractContentNestedFirst(result) ==
    IF Get(Get(result, kResponse), kText).t = "str"
    THEN Extracted(Trim(Get(Get(result, kResponse), kText).v))
    ELSE IF Get(result, kText).t = "str"
    THEN Extracted(Trim(Get(result, kText).v))
    ELSE IF Truthy(PartsOf(result)) /\ PartsOf(result).t = "arr"
    THEN Extracted(Trim(Join(PartTexts(PartsOf(result).v))))
    ELSE ExtractError("Failed to parse AI response")

\* generateCoverLetter: the text is trimmed where it is selected, and the
\* "AI returned no text" error is caught and replaced.
ExtractContent(result) ==
    IF Get(result, kText).t = "str"
    THEN Extracted(Trim(Get(result, kText).v))
    ELSE IF Get(Get(result, kResponse), kText).t = "str"
    THEN Extracted(Trim(Get(Get(result, kResponse), kText).v))
    ELSE IF Truthy(PartsOf(result)) /\ PartsOf(result).t = "arr"
    THEN Extracted(Trim(Join(PartTexts(PartsOf(result).v))))
    ELSE ExtractError("Failed to parse AI response")

\* generateAIInsights
ExtractInsightsText(result) ==
    IF Get(result, kText).t = "str"
    THEN Extracted(Get(result, kText).v)
    ELSE IF Get(Get(result, kResponse), kText).t = "str"
    THEN Extracted(Get(Get(result, kResponse), kText).v)
    ELSE IF Truthy(PartsOf(result)) /\ PartsOf(result).t = "arr"
    THEN Extracted(Join(PartTexts(PartsOf(result).v)))
    ELSE ExtractError("AI returned no text")

\* generateQuiz
ExtractQuizText(result) ==
    IF Get(result, kText).t = "str"
    THEN Extracted(Get(result, kText).v)
    ELSE IF Get(Get(result, kResponse), kText).t = "str"
    THEN Extracted(Get(Get(result, kResponse), kText).v)
    ELSE IF Truthy(PartsOf(result)) /\ PartsOf(result).t = "arr"
    THEN Extracted(Join(PartTexts(PartsOf(result).v)))
    ELSE ExtractError("AI returned no text")

\* saveQuizResult (the improvement tip)
ExtractTipText(tipResult) ==
    IF Get(tipResult, kText).t = "str"
    THEN Extracted(Get(tipResult, kText).v)
    ELSE IF Get(Get(tipResult, kResponse), kText).t = "str"
    THEN Extracted(Get(Get(tipResult, kResponse), kText).v)
    ELSE IF Truthy(PartsOf(tipResult)) /\ PartsOf(tipResult).t = "arr"
    THEN Extracted(Join(PartTexts(PartsOf(tipResult).v)))
    ELSE ExtractError("AI returned no text")

\* improveWithAI: trimmed where selected, as in generateCoverLetter
ExtractImprovedContent(result) ==
    IF Get(result, kText).t = "str"
    THEN Extracted(Trim(Get(result, kText).v))
    ELSE IF Get(Get(result, kResponse), kText).t = "str"
    THEN Extracted(Trim(Get(Get(result, kResponse), kText).v))
    ELSE IF Truthy(PartsOf(result)) /\ PartsOf(result).t = "arr"
    THEN Extracted(Trim(Join(PartTexts(PartsOf(result).v))))
    ELSE ExtractError("AI returned no text")

\* the weekly "Generate Industry Insights" job
ExtractJobText(res) ==
    IF Get(res, kText).t = "str"
    THEN Extracted(Get(res, kText).v)
    ELSE IF Get(Get(res, kResponse), kText).t = "str"
    THEN Extracted(Get(Get(res, kResponse), kText).v)
    ELSE IF Truthy(PartsOf(res)) /\ PartsOf(res).t = "arr"
    THEN Extracted(Join(PartTexts(PartsOf(res).v)))
    ELSE ExtractError("AI returned no text")

\* ------------------------------------------------------ fence stripping

Fence == <<BT, BT, BT>>

RECURSIVE RemoveFences(_)
\* text.replace(/```(?:json)?\n?/g, "")
RemoveFences(s) ==
    IF s = <<>> THEN <<>>
    ELSE IF StartsWith(s, Fence)
    THEN LET a == Drop(s, 4)
             b == IF a # <<>> /\ Head(a) = "json" THEN Tail(a) ELSE a
             c == IF b # <<>> /\ Head(b) = NL THEN Tail(b) ELSE b
         IN RemoveFences(c)
    ELSE <<Head(s)>> \o RemoveFences(Tail(s))

RECURSIVE RemoveFencesQuiz(_)
\* text.replace(/```json|```/g, "")
RemoveFencesQuiz(s) ==
    IF s = <<>> THEN <<>>
    ELSE IF StartsWith(s, Fence \o <<"json">>) THEN RemoveFencesQuiz(Drop(s, 5))
    ELSE IF StartsWith(s, Fence) THEN RemoveFencesQuiz(Drop(s, 4))
    ELSE <<Head(s)>> \o RemoveFencesQuiz(Tail(s))

\* generateAIInsights: JSON.parse(text.replace(...).trim())
ParseInsights(text) == JsonParse(Trim(RemoveFences(text)))

\* generateQuiz: JSON.parse(text.replace(...).trim())
ParseQuiz(text) == JsonParse(Trim(RemoveFencesQuiz(text)))

\* the weekly job: JSON.parse(text.replace(...).trim())
ParseJobInsights(text) == JsonParse(Trim(RemoveFences(text)))

\* ------------------------------------------------- quota classification

kStatus     == <<"status">>
kMessage    == <<"message">>
kError      == <<"error">>
kCode       == <<"code">>
kDetails    == <<"details">>
kType       == <<"@type">>
kRetryDelay == <<"retryDelay">>

Num429 == JNum(<<"4", "2", "9">>)
StrResourceExhausted == JStr(<<"RESOURCE_EXHAUSTED">>)

\* msg && msg.trim().startsWith("{") ? JSON.parse(msg) : null
\* ok = FALSE is the SyntaxError JSON.parse throws; null reads as undefined.
ParseMessage(msg) ==
    IF msg # <<>> /\ StartsWith(Trim(msg), <<"{">>) THEN JsonParse(msg)
    ELSE [ok |-> TRUE, val |-> Undefined]

\* A classifier that did not look at error.code
isQuotaErrorNoCode(err) ==
    IF ~Truthy(err) THEN FALSE
    ELSE IF Get(err, kStatus) = Num429 THEN TRUE
    ELSE LET msg == IF Get(err, kMessage).t = "str" THEN Get(err, kMessage).v
                    ELSE Stringify(err)
         IN IF Includes(msg, "RESOURCE_EXHAUSTED") \/ Includes(msg, "Quota exceeded")
            THEN TRUE
            ELSE LET parsed == ParseMessage(msg) IN
                 IF ~parsed.ok THEN FALSE
                 ELSE Get(Get(parsed.val, kError), kStatus) = StrResourceExhausted

isQuotaError(err) ==
    IF ~Truthy(err) THEN FALSE
    ELSE IF Get(err, kStatus) = Num429 THEN TRUE
    ELSE LET msg == IF Get(err, kMessage).t = "str" THEN Get(err, kMessage).v
                    ELSE Stringify(err)
         IN IF Includes(msg, "RESOURCE_EXHAUSTED") \/ Includes(msg, "Quota exceeded")
            THEN TRUE
            ELSE LET parsed == ParseMessage(msg) IN
                 IF ~parsed.ok THEN FALSE
                 ELSE IF Get(Get(parsed.val, kError), kCode) = Num429 THEN TRUE
                 ELSE Get(Get(parsed.val, kError), kStatus) = StrResourceExhausted

\* ------------------------------------------------------- retry delay

NoMatch == [found |-> FALSE]

\* /([0-9]+(?:\.[0-9]+)?)s/ tried at position i of s
MatchAt(s, i) ==
    IF s[i] \notin Digits THEN NoMatch
    ELSE LET d1 == DigitRun(Drop(s, i))
             r1 == Drop(s, i + Len(d1))
         IN IF r1 = <<>> THEN NoMatch
            ELSE IF Head(r1) = "."
                    /\ DigitRun(Tail(r1)) # <<>>
                    /\ StartsWith(Drop(r1, Len(DigitRun(Tail(r1))) + 2), <<"s">>)
            THEN [found |-> TRUE, int |-> d1, frac |-> DigitRun(Tail(r1))]
            ELSE IF Head(r1) = "s" THEN [found |-> TRUE, int |-> d1, frac |-> <<>>]
            ELSE NoMatch

RECURSIVE ExecFrom(_, _)
ExecFrom(s, i) ==
    IF i > Len(s) THEN NoMatch
    ELSE IF MatchAt(s, i).found THEN MatchAt(s, i)
    ELSE ExecFrom(s, i + 1)

\* /([0-9]+(?:\.[0-9]+)?)s/.exec(s): the leftmost match, or null
RetryDelayExec(s) == ExecFrom(s, 1)

RECURSIVE NatOf(_)
\* The number a run of digits writes
NatOf(d) == IF d = <<>> THEN 0 ELSE NatOf(SubSeq(d, 1, Len(d) - 1)) * 10 + DigitVal(d[Len(d)])

\* The ceiling of int.frac seconds in milliseconds, in exact arithmetic
ExactCeilMs(int, frac) ==
    LET f3   == SubSeq(frac \o <<"0", "0", "0">>, 1, 3)
        rest == Drop(frac, 4)
    IN NatOf(int) * 1000 + NatOf(f3)
       + (IF \E i \in 1..Len(rest) : rest[i] # "0" THEN 1 ELSE 0)

\* The literals, of those the model feeds in, whose binary64 product with
\* 1000 lies above the exact product: parseFloat("16.1") * 1000 is
\* 16100.000000000002.  (2, 3.5 and 42.854797884 give 2000, 3500 and
\* 42854.797884.)
RoundsAbove == {<<<<"1", "6">>, <<"1">>>>}

\* Math.ceil(parseFloat(m[1]) * 1000), the product taken in binary64
CeilMs(int, frac) ==
    ExactCeilMs(int, frac) + (IF <<int, frac>> \in RoundsAbove THEN 1 ELSE 0)

\* The value of one turn of the loop over details: a number returned, a
\* TypeError thrown, or the loop going on.
DetailStep(d) ==
    LET ty == Get(d, kType)
        rd == Get(d, kRetryDelay)
    IN IF ~Truthy(ty) THEN [k |-> "next"]
       ELSE IF ty.t \notin {"str", "arr"} THEN [k |-> "throw"]
       ELSE IF ~(IF ty.t = "str" THEN Includes(ty.v, "RetryInfo")
                 ELSE \E i \in 1..Len(ty.v) : ty.v[i] = JStr(<<"RetryInfo">>))
       THEN [k |-> "next"]
       ELSE IF ~Truthy(rd) THEN [k |-> "next"]
       ELSE LET m == RetryDelayExec(ToText(rd)) IN
            IF m.found THEN [k |-> "return", ms |-> CeilMs(m.int, m.frac)]
            ELSE [k |-> "next"]

RECURSIVE DetailsLoop(_)
\* for (const d of details) { ... } return 0, a TypeError caught as 0
DetailsLoop(ds) ==
    IF ds = <<>> THEN 0
    ELSE LET r == DetailStep(Head(ds)) IN
         IF r.k = "return" THEN r.ms
         ELSE IF r.k = "throw" THEN 0
         ELSE DetailsLoop(Tail(ds))

parseRetryMs(err) ==
    LET msg    == IF Get(err, kMessage).t = "str" THEN Get(err, kMessage).v ELSE <<>>
        parsed == ParseMessage(msg)
    IN IF ~parsed.ok THEN 0
       ELSE LET details == Get(Get(parsed.val, kError), kDetails) IN
            IF ~Truthy(details) THEN 0
            ELSE IF details.t = "arr" THEN DetailsLoop(details.v)
            ELSE IF details.t = "str"
                 THEN DetailsLoop([i \in 1..Len(details.v) |-> JStr(<<details.v[i]>>)])
            ELSE 0

\* =================================================================
\* The request handlers
\* =================================================================

PreferredModel == "gemini-2.5-pro"
FallbackModel  == "gemini-2.0-flash"
QuizModel      == "gemini-2.5-pro"
InsightsModel  == "gemini-2.5-pro"

\* new Error(msg)
ErrorOf(msg) == JObj(<< <<kMessage, JStr(<<msg>>)>> >>)

\* The SyntaxError of JSON.parse, and the error of a failed database call
SyntaxError == ErrorOf("SyntaxError")
DbError     == ErrorOf("PrismaClientKnownRequestError")

\* --------------------------------------------------------------- bounds

\* Requests served one after the other in a run
MaxRequests == 2
\* Questions of a quiz handed to saveQuizResult
MaxQuestions == 2
\* Parts of a candidate's content
MaxParts == 2
\* Symbols of a text handed to the fence stripping
MaxLen == 5
\* Milliseconds the clock advances in one step
TickMs == 1000

\* ------------------------------------------------------ the environment

\* What auth() may return as userId: no session, or a Clerk id
NoSession == "none"
ClerkIds  == {"clerk_1", "clerk_2"}

\* db.user: clerk_1 has a row, clerk_2 has none
NoRow == [id |-> "none"]
UserRow(clerkUserId) ==
    IF clerkUserId = "clerk_1" THEN [id |-> "user_1", industry |-> "tech"]
    ELSE NoRow

\* Texts a backend answers with
TextLetter  == <<SP, "Dear", SP, "team", NL>>
TextQuiz    == <<"{", Q, "questions", Q, ":", "[", "1", "]", "}">>
TextFenced  == Fence \o <<"json", NL>> \o TextQuiz \o <<NL>> \o Fence
TextBroken  == <<"{", Q, "questions", Q, ":">>

DirectEnvelope(text) == JObj(<< <<kText, JStr(text)>> >>)
NestedEnvelope(text) ==
    JObj(<< <<kResponse, JObj(<< <<kText, JStr(text)>> >>)>> >>)
PartsEnvelope(parts) ==
    JObj(<< <<kResponse,
              JObj(<< <<kCandidates,
                        JArr(<< JObj(<< <<kContent,
                                          JObj(<< <<kParts, parts>> >>)>> >>) >>)>> >>)>> >>)
Part(text) == JObj(<< <<kText, JStr(text)>> >>)

\* Response envelopes model.generateContent may resolve to
Envelopes ==
    {DirectEnvelope(t) : t \in {TextLetter, TextQuiz, TextFenced, TextBroken}}
    \cup {NestedEnvelope(TextQuiz),
          PartsEnvelope(JArr(<<Part(<<"Hello,", SP>>), Part(<<"world!">>)>>)),
          JObj(<<>>)}

RetryInfoType == JStr(<<"type.googleapis.com/google.rpc.", "RetryInfo">>)
RetryInfo(delay) == JObj(<< <<kType, RetryInfoType>>, <<kRetryDelay, JStr(delay)>> >>)

\* The message of an ApiError: the JSON body of the failed response
ApiMessage(members) == JStr(Stringify(JObj(<< <<kError, JObj(members)>> >>)))

Error500 ==
    JObj(<< <<kStatus, JNum(<<"5", "0", "0">>)>>,
            <<kMessage, JStr(<<"Internal", SP, "error">>)>> >>)
Error429 ==
    JObj(<< <<kStatus, Num429>>,
            <<kMessage, ApiMessage(<< <<kCode, Num429>>,
                                      <<kDetails, JArr(<<RetryInfo(<<"2", "s">>)>>)>> >>)>> >>)
ErrorQuotaText ==
    JObj(<< <<kMessage, JStr(<<"Quota exceeded", SP, "for", SP, "model">>)>> >>)
ErrorCode429 ==
    JObj(<< <<kMessage, ApiMessage(<< <<kCode, Num429>>,
                                      <<kDetails, JArr(<<RetryInfo(<<"3", ".", "5", "s">>)>>)>> >>)>> >>)

\* Errors model.generateContent may reject with
BackendErrors == {Error500, Error429, ErrorQuotaText, ErrorCode429}

\* What one call of model.generateContent may do
BackendOutcomes ==
    {[ok |-> TRUE, value |-> e] : e \in Envelopes}
    \cup {[ok |-> FALSE, value |-> e] : e \in BackendErrors}

Answers == {"a", "b"}
\* saveQuizResult(questions, answers, score): correct[i] is
\* questions[i].correctAnswer
QuizInputs ==
    UNION {[correct : [1..n -> Answers], answers : [1..n -> Answers], score : {0, 100}] :
              n \in 0..MaxQuestions}

\* The id of a cover letter: the first letter created has id 1
LetterIds == 1..MaxRequests
\* saveResume(content)
ResumeContents == {"resume_a", "resume_b"}
\* improveWithAI({ current, type }) and the data of generateCoverLetter go
\* into the prompt only.
ImproveModel == "gemini-2.5-pro"

Handlers == {"generateCoverLetter", "getCoverLetters", "getCoverLetter",
             "deleteCoverLetter", "generateQuiz", "saveQuizResult",
             "getAssessments", "getIndustryInsights", "saveResume",
             "getResume", "improveWithAI"}

\* ----------------------------------------------------------- the state

VARIABLES
    op,            \* the handler serving the current request, or "none"
    pc,            \* its position
    input,         \* its arguments
    served,        \* requests finished so far
    userId,        \* what auth() returned
    user,          \* the row db.user.findUnique returned
    calls,         \* the generateContent calls of this request: the model
                   \* asked, and what the backend answered
    dbCalls,       \* the database writes of this request, and whether each
                   \* succeeded
    reads,         \* the tables this request has read
    before,        \* the tables as they were when the request arrived
    err,           \* generateCoverLetter: the error of the preferred model
    waitMs,        \* generateCoverLetter: parseRetryMs(err)
    timerSet,      \* generateCoverLetter: setTimeout was called
    elapsed,       \* milliseconds since setTimeout was called
    text,          \* generateQuiz, generateAIInsights: the text of the response
    content,       \* content, improvementTip, insights: what goes into the row
    caught,        \* the error a catch block of the handler logged
    outcome,       \* what the handler returned or threw
    coverLetters,  \* db.coverLetter
    assessments,   \* db.assessment
    insights,      \* db.industryInsight
    resumes,       \* db.resume
    fin,           \* the argument of a function checked on its own
    fout           \* its result

vars == <<op, pc, input, served, userId, user, calls, dbCalls, reads, before,
          err, waitMs, timerSet, elapsed, text, content, caught, outcome,
          coverLetters, assessments, insights, resumes, fin, fout>>

locals == <<userId, user, calls, dbCalls, reads, err, waitMs, timerSet, elapsed, text,
            content, caught>>
\* What the body of a handler, past the user lookup, leaves alone
request == <<op, input, served, userId, user, before>>
\* The retry state of generateCoverLetter
retry   == <<err, waitMs, timerSet, elapsed>>
db     == <<coverLetters, assessments, insights, resumes>>
pure   == <<fin, fout>>

NoInput   == [k |-> "none"]
\* The arguments a handler may be called with
InputsOf(h) ==
    CASE h = "saveQuizResult" -> QuizInputs
      [] h \in {"getCoverLetter", "deleteCoverLetter"} ->
            {[k |-> "id", id |-> i] : i \in LetterIds}
      [] h = "saveResume" -> {[k |-> "content", content |-> c] : c \in ResumeContents}
      [] OTHER -> {NoInput}
NoOutcome == [k |-> "none"]
Returned(v) == [k |-> "return", v |-> v]
Thrown(e)   == [k |-> "throw", error |-> e]

Idle ==
    /\ op = "none" /\ pc = "idle" /\ input = NoInput
    /\ userId = NoSession /\ user = NoRow /\ calls = <<>> /\ dbCalls = <<>>
    /\ reads = <<>>
    /\ err = Undefined /\ waitMs = 0 /\ timerSet = FALSE /\ elapsed = 0
    /\ text = Undefined /\ content = Undefined /\ caught = Undefined /\ outcome = NoOutcome

Init ==
    /\ Idle
    /\ served = 0
    /\ coverLetters = <<>> /\ assessments = <<>> /\ insights = {}
    /\ resumes = {}
    /\ before = db
    /\ fin = Undefined /\ fout = Undefined

\* ---------------------------------------------------------- the steps

\* The handler ends: it returns v or throws e.
Finish(o) == /\ outcome' = o
             /\ pc' = "done"

\* A request arrives.
Start(h) ==
    /\ pc = "idle"
    /\ served < MaxRequests
    /\ op' = h
    /\ pc' = "auth"
    /\ input' \in InputsOf(h)
    /\ before' = db
    /\ UNCHANGED <<served, locals, outcome, db, pure>>

\* A handler that looked the user up whatever auth() returned
AuthenticateLenient ==
    /\ pc = "auth"
    /\ \E id \in ClerkIds \cup {NoSession} :
        /\ userId' = id
        /\ pc' = "findUser" /\ UNCHANGED outcome
    /\ UNCHANGED <<op, input, served, before, user, calls, dbCalls, reads, retry,
                   text, content, caught, db, pure>>

\* const { userId } = await auth(); if (!userId) throw new Error("Unauthorized")
Authenticate ==
    /\ pc = "auth"
    /\ \E id \in ClerkIds \cup {NoSession} :
        /\ userId' = id
        /\ IF id = NoSession
           THEN Finish(Thrown(ErrorOf("Unauthorized")))
           ELSE pc' = "findUser" /\ UNCHANGED outcome
    /\ UNCHANGED <<op, input, served, before, user, calls, dbCalls, reads, retry,
                   text, content, caught, db, pure>>

\* questionResults.filter((q) => !q.isCorrect), isCorrect being
\* q.correctAnswer === answers[index]
wrongAnswers(in) == {i \in 1..Len(in.correct) : in.correct[i] # in.answers[i]}

\* A lookup that never finds a stored insight
industryInsightNever(row) == {}

\* user.industryInsight of the row found with include: { industryInsight: true }
industryInsightOf(row) == {r \in insights : r.industry = row.industry}

\* One read of table t
Read(t) == reads' = Append(reads, t)

\* const user = await db.user.findUnique(...); if (!user) throw new
\* Error("User not found"), and the handler up to its next await.
FindUser ==
    /\ pc = "findUser"
    /\ Read("user")
    /\ user' = UserRow(userId)
    /\ IF user' = NoRow
       THEN Finish(Thrown(ErrorOf("User not found")))
       ELSE CASE op = "generateCoverLetter" -> pc' = "primary" /\ UNCHANGED outcome
              [] op = "generateQuiz" -> pc' = "quiz" /\ UNCHANGED outcome
              [] op = "saveQuizResult" ->
                    /\ pc' = IF wrongAnswers(input) # {} THEN "tip" ELSE "saveAssessment"
                    /\ UNCHANGED outcome
              [] op = "getIndustryInsights" ->
                    IF industryInsightOf(user') = {}
                    THEN pc' = "insights" /\ UNCHANGED outcome
                    ELSE Finish(Returned(CHOOSE r \in industryInsightOf(user') : TRUE))
              [] op = "getCoverLetters" -> pc' = "findLetters" /\ UNCHANGED outcome
              [] op = "getCoverLetter" -> pc' = "findLetter" /\ UNCHANGED outcome
              [] op = "deleteCoverLetter" -> pc' = "deleteLetter" /\ UNCHANGED outcome
              [] op = "getAssessments" -> pc' = "findAssessments" /\ UNCHANGED outcome
              [] op = "saveResume" -> pc' = "upsertResume" /\ UNCHANGED outcome
              [] op = "getResume" -> pc' = "findResume" /\ UNCHANGED outcome
              [] op = "improveWithAI" -> pc' = "improve" /\ UNCHANGED outcome
    /\ UNCHANGED <<op, input, served, before, userId, calls, dbCalls, retry,
                   text, content, caught, db, pure>>

\* ------------------------------------------------- generateCoverLetter

CoverLetterFailure == ErrorOf("Failed to generate cover letter")

\* One call of model.generateContent({ model: m, ... }) answered with r
Called(m, r) == calls' = Append(calls, [model |-> m, ok |-> r.ok, value |-> r.value])

\* One database write on table t, which succeeded or not
Wrote(t, saved) == dbCalls' = Append(dbCalls, [table |-> t, ok |-> saved])

\* The outer catch: console.error(error); throw new Error("Failed to
\* generate cover letter")
CoverLetterCatch(e) ==
    /\ caught' = e
    /\ Finish(Thrown(CoverLetterFailure))

\* A handler that saved an empty letter when the response held no text
CoverLetterExtractLenient(result) ==
    LET x == ExtractContent(result) IN
    /\ content' = IF x.ok THEN JStr(x.text) ELSE JStr(<<>>)
    /\ pc' = "create"
    /\ UNCHANGED <<caught, outcome>>

\* The response in hand: the text is taken from it and, when there is one,
\* the handler goes on to db.coverLetter.create.
CoverLetterExtract(result) ==
    LET x == ExtractContent(result) IN
    IF x.ok
    THEN /\ content' = JStr(x.text)
         /\ pc' = "create"
         /\ UNCHANGED <<caught, outcome>>
    ELSE /\ content' = content
         /\ CoverLetterCatch(ErrorOf(x.error))

\* A handler that tried the fallback model after any error
TriesFallbackAlways(e) == TRUE

\* if (isQuotaError(err)) { ... fallback ... } else { throw err }
TriesFallback(e) == isQuotaError(e)

\* if (waitMs > 0) await new Promise((r) => setTimeout(r, waitMs))
MustWait(ms) == ms > 0

\* A timer that resolved at once
TimerDueAtOnce(ms, passed) == TRUE

\* setTimeout(r, ms) resolves once ms milliseconds have passed
TimerDue(ms, passed) == passed >= ms

\* A catch that rethrew the error of the preferred model
FallbackRethrowFirst(first, second) == first

\* throw err2: the error the catch around the fallback attempt rethrows
FallbackRethrow(first, second) == second

\* result = await attemptGenerate(preferredModel), and the catch around it
AttemptPreferred ==
    /\ pc = "primary"
    /\ \E r \in BackendOutcomes :
        /\ Called(PreferredModel, r)
        /\ IF r.ok
           THEN /\ CoverLetterExtract(r.value)
                /\ UNCHANGED <<err, waitMs, timerSet>>
           ELSE /\ err' = r.value
                /\ IF TriesFallback(r.value)
                   THEN /\ waitMs' = parseRetryMs(r.value)
                        /\ timerSet' = MustWait(waitMs')
                        /\ pc' = IF MustWait(waitMs') THEN "wait" ELSE "fallback"
                        /\ UNCHANGED <<content, caught, outcome>>
                   ELSE /\ CoverLetterCatch(r.value)
                        /\ UNCHANGED <<waitMs, timerSet, content>>
    /\ UNCHANGED <<request, reads, dbCalls, elapsed, text, db, pure>>

\* Time passes while the handler waits.
Tick ==
    /\ pc = "wait"
    /\ ~TimerDue(waitMs, elapsed)
    /\ elapsed' = elapsed + TickMs
    /\ UNCHANGED <<request, reads, pc, calls, dbCalls, err, waitMs, timerSet, text,
                   content, caught, outcome, db, pure>>

\* The timer resolves the promise the handler awaits.
TimerFires ==
    /\ pc = "wait"
    /\ TimerDue(waitMs, elapsed)
    /\ pc' = "fallback"
    /\ UNCHANGED <<request, reads, calls, dbCalls, retry, text, content, caught,
                   outcome, db, pure>>

\* result = await attemptGenerate(fallbackModel), and the catch around it
AttemptFallback ==
    /\ pc = "fallback"
    /\ \E r \in BackendOutcomes :
        /\ Called(FallbackModel, r)
        /\ IF r.ok
           THEN CoverLetterExtract(r.value)
           ELSE /\ CoverLetterCatch(FallbackRethrow(err, r.value))
                /\ UNCHANGED content
    /\ UNCHANGED <<request, reads, dbCalls, retry, text, db, pure>>

\* const coverLetter = await db.coverLetter.create(...); return coverLetter
CreateCoverLetter ==
    /\ pc = "create"
    /\ \E saved \in BOOLEAN :
        /\ Wrote("coverLetter", saved)
        /\ IF saved
           THEN LET row == [id |-> served + 1, userId |-> user.id,
                            content |-> content.v, status |-> "completed"]
                IN /\ coverLetters' = Append(coverLetters, row)
                   /\ Finish(Returned(row))
                   /\ UNCHANGED caught
           ELSE /\ CoverLetterCatch(DbError)
                /\ UNCHANGED coverLetters
    /\ UNCHANGED <<request, reads, calls, retry, text, content, assessments,
                   insights, resumes, pure>>

\* ------------------------------------------------------- generateQuiz

QuizFailure == ErrorOf("Failed to generate quiz questions")
kQuestions  == <<"questions">>

\* const result = await model.generateContent(...), the extraction, the
\* parse, return quiz.questions; the catch around them all
GenerateQuizCall ==
    /\ pc = "quiz"
    /\ \E r \in BackendOutcomes :
        /\ Called(QuizModel, r)
        /\ IF ~r.ok
           THEN caught' = r.value /\ text' = text /\ Finish(Thrown(QuizFailure))
           ELSE LET x == ExtractQuizText(r.value) IN
                IF ~x.ok
                THEN /\ caught' = ErrorOf(x.error) /\ text' = text
                     /\ Finish(Thrown(QuizFailure))
                ELSE /\ text' = JStr(x.text)
                     /\ IF ParseQuiz(x.text).ok
                        THEN /\ Finish(Returned(Get(ParseQuiz(x.text).val, kQuestions)))
                             /\ UNCHANGED caught
                        ELSE /\ caught' = SyntaxError
                             /\ Finish(Thrown(QuizFailure))
    /\ UNCHANGED <<request, reads, dbCalls, retry, content, db, pure>>

\* ----------------------------------------------------- saveQuizResult

SaveQuizFailure == ErrorOf("Failed to save quiz result")

\* A handler that let a failure of the improvement tip fail the request
ImprovementTipFatal ==
    /\ pc = "tip"
    /\ \E r \in BackendOutcomes :
        /\ Called(QuizModel, r)
        /\ IF r.ok /\ ExtractTipText(r.value).ok
           THEN /\ content' = JStr(Trim(ExtractTipText(r.value).text))
                /\ pc' = "saveAssessment"
                /\ UNCHANGED <<caught, outcome>>
           ELSE /\ caught' = r.value
                /\ Finish(Thrown(SaveQuizFailure))
                /\ UNCHANGED content
    /\ UNCHANGED <<request, reads, dbCalls, retry, text, db, pure>>

\* The improvement tip: the call, the extraction, improvementTip =
\* tipText.trim(); the catch logs the error and the handler goes on.
ImprovementTip ==
    /\ pc = "tip"
    /\ \E r \in BackendOutcomes :
        /\ Called(QuizModel, r)
        /\ IF ~r.ok
           THEN caught' = r.value /\ content' = content
           ELSE LET x == ExtractTipText(r.value) IN
                IF ~x.ok
                THEN caught' = ErrorOf(x.error) /\ content' = content
                ELSE content' = JStr(Trim(x.text)) /\ caught' = caught
    /\ pc' = "saveAssessment"
    /\ UNCHANGED <<request, reads, dbCalls, retry, text, outcome, db, pure>>

\* const assessment = await db.assessment.create(...); return assessment;
\* improvementTip is null (here undefined) unless the tip was generated.
SaveAssessment ==
    /\ pc = "saveAssessment"
    /\ \E saved \in BOOLEAN :
        /\ Wrote("assessment", saved)
        /\ IF saved
           THEN LET row == [userId |-> user.id, quizScore |-> input.score,
                            wrong |-> wrongAnswers(input),
                            category |-> "Technical", improvementTip |-> content]
                IN /\ assessments' = Append(assessments, row)
                   /\ Finish(Returned(row))
                   /\ UNCHANGED caught
           ELSE /\ caught' = DbError
                /\ Finish(Thrown(SaveQuizFailure))
                /\ UNCHANGED assessments
    /\ UNCHANGED <<request, reads, calls, retry, text, content, coverLetters,
                   insights, resumes, pure>>

\* ------------------------------------------------ getIndustryInsights

\* A handler that stored what it had when the text was no JSON
GenerateAIInsightsKeepsGoing ==
    /\ pc = "insights"
    /\ \E r \in BackendOutcomes :
        /\ Called(InsightsModel, r)
        /\ IF ~r.ok
           THEN /\ Finish(Thrown(r.value))
                /\ UNCHANGED <<text, content>>
           ELSE LET x == ExtractInsightsText(r.value) IN
                IF ~x.ok
                THEN /\ Finish(Thrown(ErrorOf(x.error)))
                     /\ UNCHANGED <<text, content>>
                ELSE /\ text' = JStr(x.text)
                     /\ content' = IF ParseInsights(x.text).ok
                                   THEN ParseInsights(x.text).val ELSE JObj(<<>>)
                     /\ pc' = "createInsight"
                     /\ UNCHANGED outcome
    /\ UNCHANGED <<request, reads, dbCalls, retry, caught, db, pure>>

\* const insights = await generateAIInsights(user.industry): the call, the
\* extraction and the parse; nothing catches what they throw.
GenerateAIInsights ==
    /\ pc = "insights"
    /\ \E r \in BackendOutcomes :
        /\ Called(InsightsModel, r)
        /\ IF ~r.ok
           THEN /\ Finish(Thrown(r.value))
                /\ UNCHANGED <<text, content>>
           ELSE LET x == ExtractInsightsText(r.value) IN
                IF ~x.ok
                THEN /\ Finish(Thrown(ErrorOf(x.error)))
                     /\ UNCHANGED <<text, content>>
                ELSE /\ text' = JStr(x.text)
                     /\ IF ParseInsights(x.text).ok
                        THEN /\ content' = ParseInsights(x.text).val
                             /\ pc' = "createInsight"
                             /\ UNCHANGED outcome
                        ELSE /\ Finish(Thrown(SyntaxError))
                             /\ UNCHANGED content
    /\ UNCHANGED <<request, reads, dbCalls, retry, caught, db, pure>>

\* const industryInsight = await db.industryInsight.create(...); return it
CreateIndustryInsight ==
    /\ pc = "createInsight"
    /\ \E saved \in BOOLEAN :
        /\ Wrote("industryInsight", saved)
        /\ IF saved
           THEN LET row == [industry |-> user.industry, data |-> content]
                IN /\ insights' = insights \cup {row}
                   /\ Finish(Returned(row))
           ELSE /\ Finish(Thrown(DbError))
                /\ UNCHANGED insights
    /\ UNCHANGED <<request, reads, calls, retry, text, content, caught,
                   coverLetters, assessments, resumes, pure>>

\* ---------------------------------------- the cover letters of a user

\* Null, what findUnique resolves to when no row matches
Null == [t |-> "null"]

\* return await db.coverLetter.findMany({ where: { userId: user.id }, ... });
\* a rejection goes to the caller as it is.
GetCoverLetters ==
    /\ pc = "findLetters"
    /\ Read("coverLetter")
    /\ \E found \in BOOLEAN :
        IF found
        THEN LET Mine(r) == r.userId = user.id
             IN Finish(Returned(SelectSeq(coverLetters, Mine)))
        ELSE Finish(Thrown(DbError))
    /\ UNCHANGED <<request, calls, dbCalls, retry, text, content, caught, db, pure>>

\* return await db.coverLetter.findUnique({ where: { id, userId: user.id } })
GetCoverLetter ==
    /\ pc = "findLetter"
    /\ Read("coverLetter")
    /\ \E found \in BOOLEAN :
        IF found
        THEN LET Wanted(r) == r.id = input.id /\ r.userId = user.id
                 rows == SelectSeq(coverLetters, Wanted)
             IN Finish(Returned(IF rows = <<>> THEN Null ELSE rows[1]))
        ELSE Finish(Thrown(DbError))
    /\ UNCHANGED <<request, calls, dbCalls, retry, text, content, caught, db, pure>>

\* return await db.coverLetter.delete({ where: { id, userId: user.id } });
\* delete rejects when no row matches.
DeleteCoverLetter ==
    /\ pc = "deleteLetter"
    /\ LET Wanted(r) == r.id = input.id /\ r.userId = user.id
           Others(r) == ~Wanted(r)
           rows == SelectSeq(coverLetters, Wanted)
       IN \E deleted \in BOOLEAN :
            /\ Wrote("coverLetter", deleted /\ rows # <<>>)
            /\ IF deleted /\ rows # <<>>
               THEN /\ coverLetters' = SelectSeq(coverLetters, Others)
                    /\ Finish(Returned(rows[1]))
               ELSE /\ Finish(Thrown(DbError))
                    /\ UNCHANGED coverLetters
    /\ UNCHANGED <<request, reads, calls, retry, text, content, caught,
                   assessments, insights, resumes, pure>>

\* ------------------------------------------------------ getAssessments

FetchAssessmentsFailure == ErrorOf("Failed to fetch assessments")

\* const assessments = await db.assessment.findMany(...); return assessments;
\* the catch logs the error and throws "Failed to fetch assessments".
GetAssessments ==
    /\ pc = "findAssessments"
    /\ Read("assessment")
    /\ \E found \in BOOLEAN :
        IF found
        THEN LET Mine(r) == r.userId = user.id
             IN /\ Finish(Returned(SelectSeq(assessments, Mine)))
                /\ UNCHANGED caught
        ELSE /\ caught' = DbError
             /\ Finish(Thrown(FetchAssessmentsFailure))
    /\ UNCHANGED <<request, calls, dbCalls, retry, text, content, db, pure>>

\* --------------------------------------------------------- the resume

SaveResumeFailure == ErrorOf("Failed to save resume")
ImproveFailure    == ErrorOf("Failed to improve content")

\* const resume = await db.resume.upsert(...); return resume; the catch logs
\* the error and throws "Failed to save resume".
SaveResume ==
    /\ pc = "upsertResume"
    /\ \E saved \in BOOLEAN :
        /\ Wrote("resume", saved)
        /\ IF saved
           THEN LET row == [userId |-> user.id, content |-> input.content]
                IN /\ resumes' = {r \in resumes : r.userId # user.id} \cup {row}
                   /\ Finish(Returned(row))
                   /\ UNCHANGED caught
           ELSE /\ caught' = DbError
                /\ Finish(Thrown(SaveResumeFailure))
                /\ UNCHANGED resumes
    /\ UNCHANGED <<request, reads, calls, retry, text, content, coverLetters,
                   assessments, insights, pure>>

\* return await db.resume.findUnique({ where: { userId: user.id } })
GetResume ==
    /\ pc = "findResume"
    /\ Read("resume")
    /\ \E found \in BOOLEAN :
        IF found
        THEN LET rows == {r \in resumes : r.userId = user.id}
             IN Finish(Returned(IF rows = {} THEN Null ELSE CHOOSE r \in rows : TRUE))
        ELSE Finish(Thrown(DbError))
    /\ UNCHANGED <<request, calls, dbCalls, retry, text, content, caught, db, pure>>

\* const result = await model.generateContent(...), the extraction, return
\* improvedContent; the catch logs the error and throws "Failed to improve
\* content".
ImproveWithAI ==
    /\ pc = "improve"
    /\ \E r \in BackendOutcomes :
        /\ Called(ImproveModel, r)
        /\ IF ~r.ok
           THEN caught' = r.value /\ Finish(Thrown(ImproveFailure))
           ELSE LET x == ExtractImprovedContent(r.value) IN
                IF ~x.ok
                THEN caught' = ErrorOf(x.error) /\ Finish(Thrown(ImproveFailure))
                ELSE caught' = caught /\ Finish(Returned(JStr(x.text)))
    /\ UNCHANGED <<request, reads, dbCalls, retry, text, content, db, pure>>

\* ---------------------------------------------------------------------

\* The caller has the result; the next request may arrive.
Done ==
    /\ pc = "done"
    /\ op' = "none" /\ pc' = "idle" /\ input' = NoInput
    /\ userId' = NoSession /\ user' = NoRow /\ calls' = <<>> /\ dbCalls' = <<>>
    /\ reads' = <<>>
    /\ err' = Undefined /\ waitMs' = 0 /\ timerSet' = FALSE /\ elapsed' = 0
    /\ text' = Undefined /\ content' = Undefined /\ caught' = Undefined
    /\ outcome' = NoOutcome
    /\ served' = served + 1
    /\ UNCHANGED <<db, before, pure>>

Next ==
    \/ \E h \in Handlers : Start(h)
    \/ Authenticate
    \/ FindUser
    \/ AttemptPreferred
    \/ Tick
    \/ TimerFires
    \/ AttemptFallback
    \/ CreateCoverLetter
    \/ GenerateQuizCall
    \/ ImprovementTip
    \/ SaveAssessment
    \/ GenerateAIInsights
    \/ CreateIndustryInsight
    \/ GetCoverLetters
    \/ GetCoverLetter
    \/ DeleteCoverLetter
    \/ GetAssessments
    \/ SaveResume
    \/ GetResume
    \/ ImproveWithAI
    \/ Done

Spec == Init /\ [][Next]_vars

\* =================================================================
\* generateCoverLetter: the calls of one request
\* =================================================================

InCoverLetter == op = "generateCoverLetter"
LastCall == calls[Len(calls)]

\* C1: one generateCoverLetter request calls the backend at most twice; the
\* first call asks the preferred model; a second call asks the fallback
\* model and happens only after the first failed with an error classified
\* as a quota error.
C1_AtMostTwoCalls ==
    InCoverLetter =>
        /\ Len(calls) <= 2
        /\ Len(calls) >= 1 => calls[1].model = PreferredModel
        /\ Len(calls) = 2 =>
              /\ calls[2].model = FallbackModel
              /\ ~calls[1].ok
              /\ isQuotaError(calls[1].value)

C1_Witness ==
    /\ InCoverLetter /\ pc = "done" /\ Len(calls) = 2
    /\ calls[2].model = FallbackModel

\* C2: after a quota error of the preferred model the fallback model is
\* called exactly once, not before the suggested delay has passed; with no
\* delay suggested no timer is set and no time passes before the call.
C2_FallbackAfterDelay ==
    InCoverLetter =>
        /\ pc = "wait" => Len(calls) = 1
        /\ Len(calls) = 2 =>
              /\ elapsed >= parseRetryMs(calls[1].value)
              /\ parseRetryMs(calls[1].value) = 0 => ~timerSet /\ elapsed = 0
              /\ parseRetryMs(calls[1].value) > 0 => timerSet
        /\ (/\ pc \in {"create", "done"}
            /\ calls # <<>> /\ ~calls[1].ok /\ isQuotaError(calls[1].value))
           => Len(calls) = 2 /\ calls[2].model = FallbackModel

C2_Witness ==
    /\ InCoverLetter /\ Len(calls) = 2 /\ timerSet
    /\ parseRetryMs(calls[1].value) = 3500 /\ elapsed >= 3500

\* A request that ended on a failed backend call
EndedOnBackendError ==
    InCoverLetter /\ pc = "done" /\ calls # <<>> /\ ~LastCall.ok

\* C3 as stated: the request fails with the backend error itself.
C3_Original == EndedOnBackendError => outcome = Thrown(LastCall.value)

\* C3: the error of the last backend call (of the preferred model when it is
\* no quota error, of the fallback model otherwise, never the first of two)
\* is the one thrown to the outer catch, which logs it; the request itself
\* fails with a new Error("Failed to generate cover letter").
C3_BackendErrorToOuterCatch ==
    EndedOnBackendError =>
        /\ caught = LastCall.value
        /\ outcome = Thrown(CoverLetterFailure)
        /\ Len(calls) = 1 => ~isQuotaError(calls[1].value)

C3_Witness ==
    /\ EndedOnBackendError /\ Len(calls) = 2
    /\ calls[1].value # calls[2].value
    /\ caught = calls[2].value

\* C9: a cover letter row is created, and returned, only after a backend
\* call succeeded and its text was extracted; a request that fails has
\* created no row and returned nothing.
C9_NoPartialResult ==
    InCoverLetter =>
        /\ assessments = before[2] /\ insights = before[3]
        /\ outcome.k # "return" => coverLetters = before[1]
        /\ outcome.k = "return" =>
              /\ calls # <<>> /\ LastCall.ok
              /\ ExtractContent(LastCall.value).ok
              /\ outcome.v.content = ExtractContent(LastCall.value).text
              /\ coverLetters = Append(before[1], outcome.v)
        /\ dbCalls # <<>> =>
              /\ calls # <<>> /\ LastCall.ok
              /\ ExtractContent(LastCall.value).ok

C9_Witness ==
    /\ InCoverLetter /\ outcome.k = "throw"
    /\ calls # <<>> /\ LastCall.ok /\ ~ExtractContent(LastCall.value).ok
    /\ coverLetters = before[1]

\* =================================================================
\* generateQuiz, getIndustryInsights: text that is no JSON
\* =================================================================

\* The handler holds a response text that, its fences stripped, is no JSON.
HoldsInvalidJson ==
    /\ text # Undefined
    /\ \/ op = "generateQuiz" /\ ~JsonParse(Trim(RemoveFencesQuiz(text.v))).ok
       \/ op = "getIndustryInsights" /\ ~JsonParse(Trim(RemoveFences(text.v))).ok

\* What C8 says of every handler but the kind of error: the request has
\* ended in failure, after its one backend call and with no database write.
InvalidJsonIsTerminal ==
    /\ pc = "done" /\ outcome.k = "throw"
    /\ Len(calls) = 1
    /\ dbCalls = <<>>
    /\ db = before

\* C8 as stated: the request fails with the JSON syntax error.
C8_Original ==
    HoldsInvalidJson => InvalidJsonIsTerminal /\ outcome.error = SyntaxError

\* C8: text that is no JSON after fence stripping ends the request in
\* failure: nothing is returned, the backend is not called again, no row is
\* created or updated.  getIndustryInsights fails with the syntax error
\* itself; generateQuiz logs it and fails with a new Error("Failed to
\* generate quiz questions").
C8_InvalidJsonTerminal ==
    HoldsInvalidJson =>
        /\ InvalidJsonIsTerminal
        /\ op = "getIndustryInsights" => outcome.error = SyntaxError
        /\ op = "generateQuiz" => outcome.error = QuizFailure /\ caught = SyntaxError

C8_Witness ==
    /\ HoldsInvalidJson /\ op = "getIndustryInsights" /\ pc = "done"
    /\ text = JStr(TextBroken)

\* =================================================================
\* saveQuizResult: the improvement tip
\* =================================================================

InSaveQuiz == op = "saveQuizResult"
SomeAnswerWrong == \E i \in 1..Len(input.correct) : input.answers[i] # input.correct[i]
TipFailed == calls # <<>> /\ (~calls[1].ok \/ ~ExtractTipText(calls[1].value).ok)

\* C10: saveQuizResult calls the backend, once, only when some answer is
\* wrong; a failure of that call or of the extraction is logged and the
\* assessment is created all the same, with no improvement tip; the request
\* fails only when the create fails.
C10_TipFailureSwallowed ==
    InSaveQuiz =>
        /\ Len(calls) <= 1
        /\ calls # <<>> => SomeAnswerWrong /\ calls[1].model = QuizModel
        /\ pc \in {"saveAssessment", "done"} /\ user # NoRow /\ SomeAnswerWrong
              => Len(calls) = 1
        /\ TipFailed =>
              /\ pc \in {"saveAssessment", "done"}
              /\ content = Undefined
              /\ caught # Undefined
        /\ pc = "done" /\ user # NoRow =>
              /\ Len(dbCalls) = 1 /\ dbCalls[1].table = "assessment"
              /\ dbCalls[1].ok =>
                    /\ outcome.k = "return"
                    /\ assessments = Append(before[2], outcome.v)
                    /\ TipFailed => outcome.v.improvementTip = Undefined
              /\ ~dbCalls[1].ok =>
                    /\ outcome = Thrown(SaveQuizFailure)
                    /\ assessments = before[2]

C10_Witness ==
    /\ InSaveQuiz /\ pc = "done" /\ TipFailed
    /\ outcome.k = "return" /\ outcome.v.improvementTip = Undefined
    /\ outcome.v \in Range(assessments)

\* =================================================================
\* The caller's identity, in every handler
\* =================================================================

Unauthorized == ErrorOf("Unauthorized")
UserNotFound == ErrorOf("User not found")

\* auth() returned a user id and db.user holds the row of that id
Identified == userId \in ClerkIds /\ user # NoRow /\ user = UserRow(userId)

PastInsightLookup == op = "getIndustryInsights" /\ Identified

\* The insight of the user's industry stored when the request arrived; no
\* step of this handler ahead of its lookup writes to the table.
StoredAtLookup == {r \in before[3] : r.industry = user.industry}

\* The one call of the request resolved, held a text, and the text parsed
GeneratedAndParsed ==
    /\ Len(calls) = 1 /\ calls[1].model = InsightsModel /\ calls[1].ok
    /\ ExtractInsightsText(calls[1].value).ok
    /\ text = JStr(ExtractInsightsText(calls[1].value).text)
    /\ ParseInsights(text.v).ok
    /\ content = ParseInsights(text.v).val

\* C12: getIndustryInsights generates once. With an insight stored at the
\* lookup the request returns it, calls no backend and leaves the database
\* as it was. With none stored it calls the backend exactly once and
\* attempts the creation at most once, only after that call has resolved
\* and its text has parsed; the row created holds the parsed insights and is
\* what the request returns.
C12_GenerateOnce ==
    PastInsightLookup =>
        IF StoredAtLookup # {}
        THEN /\ pc = "done"
             /\ outcome.k = "return" /\ outcome.v \in StoredAtLookup
             /\ calls = <<>> /\ dbCalls = <<>> /\ db = before
        ELSE /\ pc \in {"insights", "createInsight", "done"}
             /\ pc = "insights" => calls = <<>> /\ dbCalls = <<>> /\ db = before
             /\ pc = "createInsight" =>
                    GeneratedAndParsed /\ dbCalls = <<>> /\ db = before
             /\ pc = "done" =>
                    /\ Len(calls) = 1 /\ Len(dbCalls) <= 1
                    /\ dbCalls # <<>> <=> GeneratedAndParsed
                    /\ dbCalls # <<>> => dbCalls[1].table = "industryInsight"
                    /\ outcome.k = "return" <=> (dbCalls # <<>> /\ dbCalls[1].ok)
                    /\ outcome.k = "return" =>
                          /\ outcome.v = [industry |-> user.industry, data |-> content]
                          /\ insights = before[3] \cup {outcome.v}
                          /\ outcome.v \notin before[3]
                    /\ outcome.k # "return" => insights = before[3]
                    /\ coverLetters = before[1] /\ assessments = before[2]
                    /\ resumes = before[4]

\* An insight was generated and stored by an earlier request; this request
\* has returned it without a call.
C12_Witness ==
    /\ PastInsightLookup /\ pc = "done" /\ served > 0
    /\ StoredAtLookup # {}
    /\ outcome.k = "return" /\ outcome.v \in insights
    /\ calls = <<>>

\* =================================================================
\* The text extraction on its own, at each place it is written
\* =================================================================

\* An object of the members whose value is not undefined
ObjectOf(members) ==
    JObj(SelectSeq(members, LAMBDA m : m[2] # Undefined))

SampleTexts == {<<>>, <<"a">>, <<SP, "b", NL>>}
\* What a text field may hold: nothing, a number, a string
TextFieldValues == {Undefined, JNum(<<"7">>)} \cup {JStr(t) : t \in SampleTexts}
\* A content fragment, with or without text
PartValues == {JObj(<<>>)} \cup {Part(t) : t \in SampleTexts}
\* What content.parts may hold: nothing, no list, a list of fragments
PartsValues ==
    {Undefined, JStr(<<"a">>), JObj(<<>>)}
    \cup {JArr(ps) : ps \in UNION {[1..n -> PartValues] : n \in 0..MaxParts}}
ResponseValues ==
    {Undefined, JObj(<< <<kCandidates, JArr(<<>>)>> >>)}
    \cup {ObjectOf(<< <<kText, tv>>,
                      <<kCandidates,
                        JArr(<< ObjectOf(<< <<kContent,
                                              ObjectOf(<< <<kParts, pv>> >>)>> >>) >>)>> >>) :
             tv \in TextFieldValues, pv \in PartsValues}
ExtractInputs ==
    {Undefined} \cup {ObjectOf(<< <<kText, tv>>, <<kResponse, rv>> >>) :
                         tv \in TextFieldValues, rv \in ResponseValues}

InitExtract ==
    /\ Idle /\ served = 0
    /\ coverLetters = <<>> /\ assessments = <<>> /\ insights = {}
    /\ resumes = {}
    /\ before = db
    /\ fin \in ExtractInputs
    /\ fout = Undefined

main == <<op, pc, input, served, locals, before, outcome, db>>

Extract(site, r) ==
    /\ fout = Undefined
    /\ fout' = [site |-> site, r |-> r]
    /\ UNCHANGED <<main, fin>>

ExtractAtCoverLetter == Extract("generateCoverLetter", ExtractContent(fin))
ExtractAtInsights    == Extract("generateAIInsights", ExtractInsightsText(fin))
ExtractAtQuiz        == Extract("generateQuiz", ExtractQuizText(fin))
ExtractAtTip         == Extract("saveQuizResult", ExtractTipText(fin))
ExtractAtImprove     == Extract("improveWithAI", ExtractImprovedContent(fin))
ExtractAtJob         == Extract("generateIndustryInsights", ExtractJobText(fin))

NextExtract ==
    \/ ExtractAtCoverLetter
    \/ ExtractAtInsights
    \/ ExtractAtQuiz
    \/ ExtractAtTip
    \/ ExtractAtImprove
    \/ ExtractAtJob

SpecExtract == InitExtract /\ [][NextExtract]_vars

\* The envelope read as C4 reads it
DirectText(e)  == IF e.t = "obj" THEN Lookup(e.v, kText) ELSE Undefined
NestedText(e)  == DirectText(IF e.t = "obj" THEN Lookup(e.v, kResponse) ELSE Undefined)
FragmentList(e) ==
    LET resp  == IF e.t = "obj" THEN Lookup(e.v, kResponse) ELSE Undefined
        cands == IF resp.t = "obj" THEN Lookup(resp.v, kCandidates) ELSE Undefined
        cand  == IF cands.t = "arr" /\ Len(cands.v) >= 1 THEN cands.v[1] ELSE Undefined
        cont  == IF cand.t = "obj" THEN Lookup(cand.v, kContent) ELSE Undefined
    IN IF cont.t = "obj" THEN Lookup(cont.v, kParts) ELSE Undefined
FragmentText(p) == IF DirectText(p).t = "str" THEN DirectText(p).v ELSE <<>>
RECURSIVE Concatenated(_)
Concatenated(ps) ==
    IF ps = <<>> THEN <<>> ELSE FragmentText(Head(ps)) \o Concatenated(Tail(ps))

\* The text C4 selects: the first of text, response.text and the joined
\* fragments that is there, or none.
Selected(e) ==
    CASE DirectText(e).t = "str" -> [ok |-> TRUE, text |-> DirectText(e).v]
      [] DirectText(e).t # "str" /\ NestedText(e).t = "str" ->
            [ok |-> TRUE, text |-> NestedText(e).v]
      [] DirectText(e).t # "str" /\ NestedText(e).t # "str" /\ FragmentList(e).t = "arr" ->
            [ok |-> TRUE, text |-> Concatenated(FragmentList(e).v)]
      [] OTHER -> [ok |-> FALSE]

TrimmingSites == {"generateCoverLetter", "improveWithAI"}

\* C4 as stated: at every place the extraction returns the selected text.
C4_Original ==
    fout # Undefined =>
        /\ fout.r.ok = Selected(fin).ok
        /\ fout.r.ok => fout.r.text = Selected(fin).text

\* C4: at every place the extraction selects the text by the same order of
\* precedence (text, then response.text, then the fragments joined in order,
\* a fragment without text counting as empty) and fails when none is there;
\* generateAIInsights, generateQuiz, saveQuizResult and the weekly job take
\* the selected text as it is, generateCoverLetter and improveWithAI take it
\* with the white space around it trimmed.
C4_ExtractionPrecedence ==
    fout # Undefined =>
        /\ fout.r.ok = Selected(fin).ok
        /\ fout.r.ok /\ fout.site \notin TrimmingSites
              => fout.r.text = Selected(fin).text
        /\ fout.r.ok /\ fout.site \in TrimmingSites
              => fout.r.text = Trim(Selected(fin).text)

C4_Witness ==
    /\ fout # Undefined /\ fout.site = "generateCoverLetter"
    /\ DirectText(fin) = JStr(<<SP, "b", NL>>) /\ NestedText(fin) = JStr(<<"a">>)
    /\ fout.r = [ok |-> TRUE, text |-> <<"b">>]

\* =================================================================
\* The quota classification and the retry delay on their own
\* =================================================================

Num500 == JNum(<<"5", "0", "0">>)

\* retryDelay strings: seconds with a unit, and strings that hold no delay
RetryDelays ==
    {<<"2", "s">>, <<"3", ".", "5", "s">>, <<"1", "6", ".", "1", "s">>,
     <<"4", "2", ".", "8", "5", "4", "7", "9", "7", "8", "8", "4", "s">>,
     <<"soon">>, <<"5">>, <<>>}

ErrorInfo == JObj(<< <<kType, JStr(<<"type.googleapis.com/google.rpc.", "ErrorInfo">>)>> >>)

DetailsValues ==
    {Undefined, JArr(<<>>), JArr(<<ErrorInfo>>), JStr(<<"none">>), JNum(<<"1">>)}
    \cup {JArr(<<RetryInfo(d)>>) : d \in RetryDelays}
    \cup {JArr(<<ErrorInfo, RetryInfo(d)>>) : d \in RetryDelays}
    \cup {JArr(<<RetryInfo(<<"soon">>), RetryInfo(<<"2", "s">>)>>),
          JArr(<<JObj(<< <<kRetryDelay, JStr(<<"2", "s">>)>> >>)>>)}

\* The JSON bodies of failed responses
ApiBodies ==
    {ObjectOf(<< <<kError,
                   ObjectOf(<< <<kCode, c>>, <<kStatus, st>>, <<kDetails, d>> >>)>> >>) :
        c  \in {Undefined, Num429, Num500},
        st \in {Undefined, StrResourceExhausted, JStr(<<"INTERNAL">>)},
        d  \in DetailsValues}

PlainMessages ==
    {<<>>, <<"fetch", SP, "failed">>, <<"4", "2", "9">>,
     <<"got", SP, "RESOURCE_EXHAUSTED">>, <<"Quota exceeded", SP, "today">>,
     <<"{", Q, "error", Q, ":", "{", Q, "code", Q, ":", "4", "2", "9">>,
     <<"[", "4", "2", "9", "]">>}

MessageValues ==
    {Undefined}
    \cup {JStr(m) : m \in PlainMessages}
    \cup {JStr(Stringify(b)) : b \in ApiBodies}
    \cup {JStr(<<SP>> \o Stringify(b) \o <<NL>>) :
             b \in {c \in ApiBodies : Get(Get(c, kError), kDetails) = Undefined}}

\* Errors with a status and/or a message, and no error at all
ErrorInputs ==
    {Undefined}
    \cup {ObjectOf(<< <<kStatus, st>>, <<kMessage, m>> >>) :
             st \in {Undefined, Num429, Num500}, m \in MessageValues}

InitClassify ==
    /\ Idle /\ served = 0
    /\ coverLetters = <<>> /\ assessments = <<>> /\ insights = {}
    /\ resumes = {}
    /\ before = db
    /\ fin \in ErrorInputs
    /\ fout = Undefined

Apply(f, r) ==
    /\ fout = Undefined
    /\ fout' = [f |-> f, r |-> r]
    /\ UNCHANGED <<main, fin>>

ApplyIsQuotaError == Apply("isQuotaError", isQuotaError(fin))
ApplyParseRetryMs == Apply("parseRetryMs", parseRetryMs(fin))

NextClassify ==
    \/ ApplyIsQuotaError
    \/ ApplyParseRetryMs

SpecClassify == InitClassify /\ [][NextClassify]_vars

\* The error read as C5 and C6 read it
StatusOf(e)  == IF e.t = "obj" THEN Lookup(e.v, kStatus) ELSE Undefined
MessageOf(e) == IF e.t = "obj" THEN Lookup(e.v, kMessage) ELSE Undefined
HasMessage(e) == MessageOf(e).t = "str"
MessageJson(e) ==
    IF HasMessage(e) /\ JsonParse(MessageOf(e).v).ok
    THEN JsonParse(MessageOf(e).v).val ELSE Undefined
BodyError(e) ==
    IF MessageJson(e).t = "obj" THEN Lookup(MessageJson(e).v, kError) ELSE Undefined
BodyField(e, k) == IF BodyError(e).t = "obj" THEN Lookup(BodyError(e).v, k) ELSE Undefined

RateLimitedAsStated(e) ==
    \/ StatusOf(e) = Num429
    \/ HasMessage(e) /\ "RESOURCE_EXHAUSTED" \in Range(MessageOf(e).v)
    \/ HasMessage(e) /\ "Quota exceeded" \in Range(MessageOf(e).v)
    \/ BodyField(e, kCode) = Num429
    \/ BodyField(e, kStatus) = StrResourceExhausted

\* C5: an error is classified as a quota error exactly when its status is
\* 429, or its message contains "RESOURCE_EXHAUSTED" or "Quota exceeded", or
\* its message parses as JSON with error.code 429 or error.status
\* "RESOURCE_EXHAUSTED".
C5_ClassifiedExactlyWhen ==
    (fout # Undefined /\ fout.f = "isQuotaError") => (fout.r = RateLimitedAsStated(fin))

C5_Witness ==
    /\ fout # Undefined /\ fout.f = "isQuotaError" /\ fout.r = TRUE
    /\ StatusOf(fin) = Undefined
    /\ BodyField(fin, kCode) = Num429
    /\ BodyField(fin, kStatus) = Undefined
    /\ "Quota exceeded" \notin Range(MessageOf(fin).v)

\* A retryDelay as C6 reads it: digits, perhaps a point and digits, then "s"
WellFormedDelay(d) ==
    /\ d.t = "str"
    /\ RetryDelayExec(d.v).found
    /\ LET m == RetryDelayExec(d.v) IN
       d.v = m.int \o (IF m.frac = <<>> THEN <<>> ELSE <<".">> \o m.frac) \o <<"s">>
IsRetryInfo(x) ==
    /\ x.t = "obj"
    /\ Lookup(x.v, kType).t = "str"
    /\ "RetryInfo" \in Range(Lookup(x.v, kType).v)
    /\ WellFormedDelay(Lookup(x.v, kRetryDelay))
RetryInfos(e) ==
    IF BodyField(e, kDetails).t = "arr"
    THEN SelectSeq(BodyField(e, kDetails).v, IsRetryInfo) ELSE <<>>

\* The wait C6 states: the delay of the RetryInfo detail in milliseconds,
\* rounded up, or 0.
SuggestedWaitAsStated(e) ==
    IF RetryInfos(e) = <<>> THEN 0
    ELSE LET m == RetryDelayExec(Lookup(RetryInfos(e)[1].v, kRetryDelay).v)
         IN ExactCeilMs(m.int, m.frac)

\* C6: the suggested wait is the retryDelay of the RetryInfo detail, in
\* milliseconds, rounded up ("3.5s" gives 3500), and 0 when there is no
\* such delay to read.
C6_WaitIsCeilOfDelay ==
    (fout # Undefined /\ fout.f = "parseRetryMs") => (fout.r = SuggestedWaitAsStated(fin))

\* Where the product of the seconds with 1000 is exact in binary64, the
\* wait is the one C6 states.
WaitIsCeilWhereProductExact ==
    (/\ fout # Undefined /\ fout.f = "parseRetryMs"
     /\ \A i \in 1..Len(RetryInfos(fin)) :
           LET m == RetryDelayExec(Lookup(RetryInfos(fin)[i].v, kRetryDelay).v)
           IN <<m.int, m.frac>> \notin RoundsAbove)
    => (fout.r = SuggestedWaitAsStated(fin))

\* =================================================================
\* The fence stripping on its own
\* =================================================================

FenceAlphabet == {BT, "json", NL, SP, Q, "1"}
FenceInputs == UNION {[1..n -> FenceAlphabet] : n \in 0..MaxLen}

InitFences ==
    /\ Idle /\ served = 0
    /\ coverLetters = <<>> /\ assessments = <<>> /\ insights = {}
    /\ resumes = {}
    /\ before = db
    /\ fin \in {JStr(t) : t \in FenceInputs}
    /\ fout = Undefined

\* t between a leading ```json fence and a trailing ``` fence
Fenced(t) == Fence \o <<"json", NL>> \o t \o <<NL>> \o Fence

\* The text is parsed as it is, and fenced through the site's stripping.
Strip(site, r) ==
    /\ fout = Undefined
    /\ fout' = [site |-> site, direct |-> JsonParse(fin.v), fenced |-> r]
    /\ UNCHANGED <<main, fin>>

StripAtInsights == Strip("generateAIInsights", ParseInsights(Fenced(fin.v)))
StripAtQuiz     == Strip("generateQuiz", ParseQuiz(Fenced(fin.v)))
StripAtJob      == Strip("generateIndustryInsights", ParseJobInsights(Fenced(fin.v)))

NextFences ==
    \/ StripAtInsights
    \/ StripAtQuiz
    \/ StripAtJob

SpecFences == InitFences /\ [][NextFences]_vars

\* C7: a text wrapped in a ```json fence and a ``` fence and put through
\* the fence stripping parses to what the text itself parses to, or fails
\* as the text itself fails.
C7_FencedParsesAlike ==
    fout # Undefined => fout.fenced = fout.direct

HoldsFence(t) == \E i \in 1..(Len(t) - 2) : SubSeq(t, i, i + 2) = Fence

\* A text that holds no three backquotes in a row does parse alike.
FenceFreeParsesAlike ==
    (fout # Undefined /\ ~HoldsFence(fin.v)) => fout.fenced = fout.direct

\* A JSON string of three backquotes parses, fenced, to the empty string.
FenceInStringKept ==
    (fout # Undefined /\ fin.v = <<Q, BT, BT, BT, Q>>) => fout.fenced = fout.direct

====
